---- MODULE Spec2Model ----
(***************************************************************************)
(* Model of server.js, the bulk open-port scanner: one HTTP endpoint       *)
(* (POST /scan), one WebSocket server, and the asynchronous per-port loop  *)
(* processNextPort.  Every action is one run-to-completion step of the     *)
(* Node.js event loop: an HTTP request, a WebSocket event, a probe socket  *)
(* event or a timer, together with the promise continuations it resumes.   *)
(***************************************************************************)
EXTENDS Integers, Sequences, FiniteSets, TLC

(* ---------------------------- bounds ----------------------------------- *)

\* Largest integer port number a request may name.
MaxPort == 2
\* Number of WebSocket connections the agent side opens in one execution.
MaxConns == 2
\* Number of scan requests accepted in one execution.
MaxRuns == 2

Conns == 1..MaxConns
Runs == 1..MaxRuns

(* ---------------------------- JS values -------------------------------- *)

\* A JSON number n + 1/2 (half) or n; only halves are needed to tell an
\* integer from a number that is not one.
JsNum(n, half) == [type |-> "number", n |-> n, half |-> half]
\* Any JSON value whose typeof is not 'number' (a string, or a missing key).
NotANumber == [type |-> "string", n |-> 0, half |-> FALSE]

typeof(v) == v.type
\* a < b on JSON numbers
Less(a, b) == a.n < b.n \/ (a.n = b.n /\ ~a.half /\ b.half)
\* a <= b
LessEq(a, b) == a = b \/ Less(a, b)
\* p++
Incr(p) == JsNum(p.n + 1, p.half)
IsInteger(v) == typeof(v) = "number" /\ ~v.half

\* The request bodies, as <<startPort, endPort>>: the whole range, a single
\* port, a reversed range, a start below 1, values that are not numbers, and
\* a number that is not an integer.
Requests ==
    { <<JsNum(1, FALSE), JsNum(MaxPort, FALSE)>>,
      <<JsNum(1, FALSE), JsNum(1, FALSE)>>,
      <<JsNum(MaxPort + 1, FALSE), JsNum(1, FALSE)>>,
      <<JsNum(0, FALSE), JsNum(1, FALSE)>>,
      <<NotANumber, JsNum(1, FALSE)>>,
      <<JsNum(1, FALSE), NotANumber>>,
      <<JsNum(1, TRUE), JsNum(MaxPort, FALSE)>> }

NoClient == 0
NoPort == [type |-> "none", n |-> 0, half |-> FALSE]
NoRange == <<NoPort, NoPort>>

VARIABLES
    connectedClient,   \* the ws stored by the connection handler, or NoClient
    clientPublicIp,    \* the address probed, or "null"
    isScanning,
    scanQueue,
    scanResults,
    readyState,        \* of every ws: "NONE" before it connects
    listeners,         \* onClientMsg listeners on each ws that can still be called
    pc,                \* where each run's processNextPort chain is suspended
    curPort,           \* the local `port` of each chain
    crashed,           \* the process died of an uncaught exception
    response,          \* what res.json() returned in the last step
    outbox,            \* the messages written to a ws in the last step
    nextConn,          \* next ws to connect
    nextRun,           \* next chain to start
    \* history variables, read by the properties only
    range,             \* <<startPort, endPort>> of the last accepted scan
    runState,          \* of the last accepted scan: "open" until a completion step
                       \* ("completed") or the close of a channel ("aborted")
    aborted,           \* chains that were in flight when a channel closed
    lastDequeued,      \* the port dequeued last in this scan, and what was handed
                       \* to sendToClient for it
    completes,         \* scanComplete messages sent since the last accepted scan
    sock               \* the net.Socket of each chain's probe; followed event by
                       \* event in SpecProbe only, in Spec a probe is one step

vars == <<connectedClient, clientPublicIp, isScanning, scanQueue, scanResults,
          readyState, listeners, pc, curPort, crashed, response, outbox,
          nextConn, nextRun, range, runState, aborted, lastDequeued, completes, sock>>


(* ---------------------------- helpers ---------------------------------- *)

NoResponse == [kind |-> "none", total |-> 0]
NoDequeue == [port |-> NoPort, stop |-> TRUE, progress |-> TRUE]

InFlight == {"awaitAck", "probing", "timer"}

\* A message object handed to sendToClient; `by` is the chain that sends it
\* (0 for the request and connection handlers), `to` the ws it is written to,
\* NoClient when it is dropped.
Msg(kind, by, port, body) ==
    [kind |-> kind, by |-> by, to |-> NoClient, port |-> port, body |-> body]

\* sendToClient: written to the stored ws when it is OPEN, dropped otherwise.
sendToClient(box, msgObj) ==
    IF connectedClient # NoClient /\ readyState[connectedClient] = "OPEN"
    THEN Append(box, [msgObj EXCEPT !.to = connectedClient])
    ELSE Append(box, msgObj)

\* The messages of `box` of one kind: handed to sendToClient, and written to a ws.
Handed(box, kind) == {i \in DOMAIN box : box[i].kind = kind}
Sent(box, kind) == {i \in Handed(box, kind) : box[i].to # NoClient}

\* scanResults.findIndex(r => r.port === port); 0 stands for -1.
findIndex(results, port) ==
    IF \E i \in DOMAIN results : results[i].port = port
    THEN CHOOSE i \in DOMAIN results :
            /\ results[i].port = port
            /\ \A j \in DOMAIN results : results[j].port = port => i <= j
    ELSE 0

RECURSIVE BuildFrom(_, _)
BuildFrom(p, endPort) ==
    IF LessEq(p, endPort) THEN <<p>> \o BuildFrom(Incr(p), endPort) ELSE <<>>

\* A plausible slip: the loop stops one short of endPort.
BuildQueueShort(startPort, endPort) ==
    LET q == BuildFrom(startPort, endPort) IN SubSeq(q, 1, Len(q) - 1)

\* for (let p = startPort; p <= endPort; p++) scanQueue.push(p)
BuildQueue(startPort, endPort) == BuildFrom(startPort, endPort)

\* The ports of a list of Port Outcome Records, in list order.
Ports(results) == [i \in DOMAIN results |-> results[i].port]

\* net.Socket.connect throws ERR_SOCKET_BAD_PORT for a port that is not an
\* integer in 0..65535, inside the promise executor.
LegalPort(port) == IsInteger(port) /\ port.n >= 0 /\ port.n <= 65535

\* The promise of attemptConnectToClient before it is resolved, and after the
\* executor threw.
Pending == [port |-> NoPort, success |-> FALSE, errorMessage |-> "pending"]
Rejected == [port |-> NoPort, success |-> FALSE, errorMessage |-> "ERR_SOCKET_BAD_PORT"]
NoSocket == [port |-> NoPort, settled |-> FALSE, destroyed |-> FALSE,
             result |-> Pending, fired |-> {}, first |-> "none"]

\* The error texts a failed connect can carry, and the events of a socket.
SocketErrors == {"ECONNREFUSED", "EHOSTUNREACH"}
SocketEvents == {"connect", "timeout"} \cup SocketErrors
EventKind(ev) == IF ev \in SocketErrors THEN "error" ELSE ev

\* The executor of attemptConnectToClient: the locals `socket` and `settled`
\* and the promise; `fired` holds the one-time listeners that have run and
\* `first` is a history field naming the first event.
NewSocket(port) ==
    [port |-> port, settled |-> FALSE, destroyed |-> FALSE,
     result |-> IF LegalPort(port) THEN Pending ELSE Rejected,
     fired |-> {}, first |-> "none"]

\* resolve(value): a promise takes the first settlement only.
resolve(s, value) ==
    IF s.result = Pending THEN [s EXCEPT !.result = value] ELSE s

\* The 'connect' listener.
onConnect(s) ==
    resolve([s EXCEPT !.settled = TRUE, !.destroyed = TRUE],
            [port |-> s.port, success |-> TRUE, errorMessage |-> "undefined"])

\* The 'error' listener (text = err.message) and the timeout callback
\* (text = 'timeout').
onFailure(s, text) ==
    IF ~s.settled
    THEN resolve([s EXCEPT !.settled = TRUE, !.destroyed = TRUE],
                 [port |-> s.port, success |-> FALSE, errorMessage |-> text])
    ELSE s

\* Event ev is delivered to the socket.
Fire(s, ev) ==
    [(IF ev = "connect" THEN onConnect(s) ELSE onFailure(s, ev))
        EXCEPT !.fired = @ \cup {EventKind(ev)},
               !.first = IF @ = "none" THEN ev ELSE @]

\* The outcome of attemptConnectToClient when `ev` is the first of the socket's
\* events; in Spec a probe is this one step.
ProbeEvents == {"connect", "ECONNREFUSED", "timeout"}
attemptConnectToClient(port, ev) == Fire(NewSocket(port), ev).result

\* What the history variable lastDequeued becomes after `box` was sent.
Mark(ld, box) ==
    [ld EXCEPT
        !.stop = @ \/ \E i \in Handed(box, "stopListener") : box[i].port = ld.port,
        !.progress = @ \/ \E i \in Handed(box, "portScanned") : box[i].port = ld.port]

(* ---------------------------- Init ------------------------------------- *)

Init ==
    /\ connectedClient = NoClient
    /\ clientPublicIp = "null"
    /\ isScanning = FALSE
    /\ scanQueue = <<>>
    /\ scanResults = <<>>
    /\ readyState = [w \in Conns |-> "NONE"]
    /\ listeners = [w \in Conns |-> {}]
    /\ pc = [r \in Runs |-> "idle"]
    /\ curPort = [r \in Runs |-> NoPort]
    /\ crashed = FALSE
    /\ response = NoResponse
    /\ outbox = <<>>
    /\ nextConn = 1
    /\ nextRun = 1
    /\ range = NoRange
    /\ runState = "none"
    /\ aborted = {}
    /\ lastDequeued = NoDequeue
    /\ completes = 0
    /\ sock = [r \in Runs |-> NoSocket]

\* An uncaught exception ends the process: every object is gone.
Halt ==
    /\ crashed' = TRUE
    /\ connectedClient' = NoClient
    /\ clientPublicIp' = "null"
    /\ isScanning' = FALSE
    /\ scanQueue' = <<>>
    /\ scanResults' = <<>>
    /\ readyState' = [w \in Conns |-> "CLOSED"]
    /\ listeners' = [w \in Conns |-> {}]
    /\ pc' = [r \in Runs |-> "idle"]
    /\ curPort' = [r \in Runs |-> NoPort]
    /\ response' = NoResponse
    /\ outbox' = <<>>
    /\ nextConn' = MaxConns + 1
    /\ nextRun' = MaxRuns + 1
    /\ range' = NoRange
    /\ runState' = "none"
    /\ aborted' = {}
    /\ lastDequeued' = NoDequeue
    /\ completes' = 0
    /\ sock' = [r \in Runs |-> NoSocket]

(* ---------------------------- processNextPort -------------------------- *)

\* processNextPort up to its first await, called by chain r when the queue is
\* q, the results are res, `box` was already sent in this step, the busy flag
\* is `scanning`; ld, n and rs are the history variables lastDequeued,
\* completes and runState as the caller leaves them.  A rejection
\* at line 117 (no ws to register on) is handled by nobody and ends the chain.
processNextPort(r, q, res, box, scanning, ld, n, rs) ==
    IF Len(q) = 0
    THEN LET out == sendToClient(box, Msg("scanComplete", r, NoPort, res)) IN
         /\ isScanning' = FALSE
         /\ outbox' = out
         /\ pc' = [pc EXCEPT ![r] = "done"]
         /\ curPort' = [curPort EXCEPT ![r] = NoPort]
         /\ scanQueue' = q
         /\ scanResults' = res
         /\ listeners' = listeners
         /\ lastDequeued' = ld
         /\ completes' = n + Cardinality(Sent(out, "scanComplete"))
         /\ runState' = IF rs = "open" THEN "completed" ELSE rs
    ELSE LET port == Head(q)
             out == sendToClient(box, Msg("startListener", r, port, "none")) IN
         /\ scanQueue' = Tail(q)
         /\ scanResults' =
               Append(res, [port |-> port, status |-> "pending", error |-> "undefined"])
         /\ outbox' = out
         /\ isScanning' = scanning
         /\ curPort' = [curPort EXCEPT ![r] = port]
         /\ lastDequeued' = [port |-> port, stop |-> FALSE, progress |-> FALSE]
         /\ completes' = n
         /\ runState' = rs
         /\ IF connectedClient = NoClient
            THEN /\ pc' = [pc EXCEPT ![r] = "failed"]
                 /\ listeners' = listeners
            ELSE /\ pc' = [pc EXCEPT ![r] = "awaitAck"]
                 /\ listeners' =
                       IF readyState[connectedClient] = "OPEN"
                       THEN [listeners EXCEPT ![connectedClient] =
                               @ \cup {[run |-> r, port |-> port, live |-> TRUE]}]
                       ELSE listeners

\* setTimeout(processNextPort, 100) fires for chain r.
Timer(r) ==
    /\ ~crashed
    /\ pc[r] = "timer"
    /\ processNextPort(r, scanQueue, scanResults, <<>>, isScanning, lastDequeued,
                       completes, runState)
    /\ response' = NoResponse
    /\ UNCHANGED <<connectedClient, clientPublicIp, readyState, crashed, sock,
                   nextConn, nextRun, range, aborted>>

(* ---------------------------- POST /scan -------------------------------- *)

\* A plausible slip: the handler forgets the busy check.
ValidateNoBusy(startPort, endPort) ==
    IF connectedClient = NoClient THEN "NoAgent"
    ELSE IF \/ typeof(startPort) # "number"
            \/ typeof(endPort) # "number"
            \/ Less(startPort, JsNum(1, FALSE))
            \/ Less(endPort, startPort)
         THEN "InvalidRange"
         ELSE "accepted"

\* Lines 161-180: the early returns of the handler, in order.
Validate(startPort, endPort) ==
    IF connectedClient = NoClient THEN "NoAgent"
    ELSE IF isScanning THEN "AlreadyScanning"
    ELSE IF \/ typeof(startPort) # "number"
            \/ typeof(endPort) # "number"
            \/ Less(startPort, JsNum(1, FALSE))
            \/ Less(endPort, startPort)
         THEN "InvalidRange"
         ELSE "accepted"

\* A plausible slip: the handler clears the scan state before it validates.
RejectScanAfterReset(kind, startPort, endPort) ==
    /\ response' = [kind |-> kind, total |-> 0]
    /\ outbox' = <<>>
    /\ scanQueue' = <<>>
    /\ scanResults' = <<>>
    /\ isScanning' = FALSE
    /\ UNCHANGED <<connectedClient, clientPublicIp, readyState, listeners, pc,
                   curPort, crashed, sock, nextConn, nextRun, range, runState, aborted,
                   lastDequeued, completes>>

\* return res.status(400).json({ error }): nothing else happens.
RejectScan(kind, startPort, endPort) ==
    /\ response' = [kind |-> kind, total |-> 0]
    /\ outbox' = <<>>
    /\ UNCHANGED <<connectedClient, clientPublicIp, isScanning, scanQueue,
                   scanResults, readyState, listeners, pc, curPort, crashed, sock,
                   nextConn, nextRun, range, runState, aborted, lastDequeued,
                   completes>>

\* Lines 182-198: build the queue, reset the results, set the busy flag, send
\* scanStarted, run processNextPort to its first await, then answer with the
\* length the queue has by then.
AcceptScan(startPort, endPort) ==
    /\ nextRun <= MaxRuns
    /\ processNextPort(nextRun, BuildQueue(startPort, endPort), <<>>,
            sendToClient(<<>>, Msg("scanStarted", 0, NoPort, <<startPort, endPort>>)),
            TRUE, NoDequeue, 0, "open")
    /\ response' = [kind |-> "accepted", total |-> Len(scanQueue')]
    /\ nextRun' = nextRun + 1
    /\ range' = <<startPort, endPort>>
    /\ UNCHANGED <<connectedClient, clientPublicIp, readyState, crashed, sock,
                   nextConn, aborted>>

ScanRequest(startPort, endPort) ==
    /\ ~crashed
    /\ IF Validate(startPort, endPort) = "accepted"
       THEN AcceptScan(startPort, endPort)
       ELSE RejectScan(Validate(startPort, endPort), startPort, endPort)

(* ---------------------------- WebSocket events -------------------------- *)

\* What the upgrade request of a connection carries: the x-forwarded-for
\* header as its comma-separated entries (<<>> when absent or empty), each
\* with or without blanks around it, and the socket's remote address.
Entry(text, blanks) == [text |-> text, blanks |-> blanks]
trim(entry) == entry.text
Handshakes ==
    { [forwarded |-> <<Entry("203.0.113.25", FALSE), Entry("10.0.0.5", TRUE)>>,
       remoteAddress |-> "::ffff:10.0.0.1"],
      [forwarded |-> <<>>, remoteAddress |-> "::ffff:203.0.113.25"] }

\* (req.socket.remoteAddress || '').replace(/^::ffff:/, '')
StripMapped(addr) ==
    CASE addr = "undefined" -> ""
      [] addr = "::ffff:203.0.113.25" -> "203.0.113.25"
      [] addr = "::ffff:10.0.0.1" -> "10.0.0.1"
      [] OTHER -> addr

\* Lines 212-222.
PublicIp(req) ==
    IF req.forwarded # <<>> THEN trim(req.forwarded[1])
    ELSE StripMapped(req.remoteAddress)

\* wss.on('connection'): the new ws replaces the stored one; nothing else of
\* the scan state is touched.
Connect(req) ==
    /\ ~crashed
    /\ nextConn <= MaxConns
    /\ readyState' = [readyState EXCEPT ![nextConn] = "OPEN"]
    /\ clientPublicIp' = PublicIp(req)
    /\ connectedClient' = nextConn
    /\ outbox' = <<[Msg("welcome", 0, NoPort, PublicIp(req)) EXCEPT !.to = nextConn]>>
    /\ nextConn' = nextConn + 1
    /\ response' = NoResponse
    /\ UNCHANGED <<isScanning, scanQueue, scanResults, listeners, pc, curPort,
                   crashed, sock, nextRun, range, runState, aborted, lastDequeued,
                   completes>>

\* The ws stops being OPEN (close frame received, or the socket died) before
\* its 'close' event is emitted.  It emits no 'message' from then on, so its
\* listeners can no longer be called.
BeginClose(w) ==
    /\ ~crashed
    /\ readyState[w] = "OPEN"
    /\ readyState' = [readyState EXCEPT ![w] = "CLOSING"]
    /\ listeners' = [listeners EXCEPT ![w] = {}]
    /\ response' = NoResponse
    /\ outbox' = <<>>
    /\ UNCHANGED <<connectedClient, clientPublicIp, isScanning, scanQueue,
                   scanResults, pc, curPort, crashed, sock, nextConn,
                   nextRun, range, runState, aborted, lastDequeued, completes>>

\* A plausible slip: the close handler forgets the stored ws.
OnCloseKeepsClient(w) ==
    /\ ~crashed
    /\ readyState[w] = "CLOSING"
    /\ readyState' = [readyState EXCEPT ![w] = "CLOSED"]
    /\ isScanning' = FALSE
    /\ scanQueue' = <<>>
    /\ aborted' = aborted \cup (IF isScanning THEN {r \in Runs : pc[r] \in InFlight} ELSE {})
    /\ runState' = IF runState = "open" THEN "aborted" ELSE runState
    /\ response' = NoResponse
    /\ outbox' = <<>>
    /\ UNCHANGED <<connectedClient, clientPublicIp, scanResults, listeners, pc,
                   curPort, crashed, sock, nextConn, nextRun, range, lastDequeued,
                   completes>>

\* A plausible slip: the close handler forgets the busy flag and the queue.
OnCloseKeepsBusy(w) ==
    /\ ~crashed
    /\ readyState[w] = "CLOSING"
    /\ readyState' = [readyState EXCEPT ![w] = "CLOSED"]
    /\ connectedClient' = NoClient
    /\ clientPublicIp' = "null"
    /\ aborted' = aborted \cup (IF isScanning THEN {r \in Runs : pc[r] \in InFlight} ELSE {})
    /\ runState' = IF runState = "open" THEN "aborted" ELSE runState
    /\ response' = NoResponse
    /\ outbox' = <<>>
    /\ UNCHANGED <<isScanning, scanQueue, scanResults, listeners, pc, curPort,
                   crashed, sock, nextConn, nextRun, range, lastDequeued, completes>>

\* ws.on('close') of ws w, whichever ws is stored at that moment.
OnClose(w) ==
    /\ ~crashed
    /\ readyState[w] = "CLOSING"
    /\ readyState' = [readyState EXCEPT ![w] = "CLOSED"]
    /\ connectedClient' = NoClient
    /\ clientPublicIp' = "null"
    /\ isScanning' = FALSE
    /\ scanQueue' = <<>>
    /\ aborted' = aborted \cup (IF isScanning THEN {r \in Runs : pc[r] \in InFlight} ELSE {})
    /\ runState' = IF runState = "open" THEN "aborted" ELSE runState
    /\ response' = NoResponse
    /\ outbox' = <<>>
    /\ UNCHANGED <<scanResults, listeners, pc, curPort, crashed, sock, nextConn,
                   nextRun, range, lastDequeued, completes>>

\* What an agent may write to a ws: text JSON.parse rejects, the JSON text
\* null, or an object with an event and a port.
AllPayloads ==
    {[kind |-> k, event |-> "none", port |-> NoPort] : k \in {"unparseable", "null"}}
    \cup {[kind |-> "object", event |-> ev, port |-> JsNum(n, half)] :
            ev \in {"listening", "error"}, n \in 1..MaxPort, half \in BOOLEAN}
    \cup {[kind |-> "object", event |-> "welcome", port |-> JsNum(1, FALSE)]}

\* The payloads tried on ws w: an object names a port a listener of w waits
\* for, or port 1.
Payloads(w) ==
    {m \in AllPayloads :
        m.kind = "object" =>
            m.port \in {l.port : l \in listeners[w]} \cup {JsNum(1, FALSE)}}

\* The listeners of ws w that onClientMsg resolves for payload m (lines 109-115).
Matching(w, m) ==
    IF m.kind = "object" /\ m.event \in {"listening", "error"}
    THEN {l \in listeners[w] : l.port = m.port}
    ELSE {}

\* ws 'message' on w.  The handler of line 233 runs first and throws on the
\* parsed value null (msg.event); then every onClientMsg registered on w runs,
\* and a matching one calls connectedClient.removeListener, which throws when
\* no ws is stored and removes nothing when another ws is.  Each chain whose
\* promise was resolved then starts its probe; socket.connect throws for a
\* port that is not legal, which rejects the chain's promise.  A payload no
\* listener matches changes nothing.
Message(w, m) ==
    /\ ~crashed
    /\ readyState[w] = "OPEN"
    /\ m \in Payloads(w)
    /\ IF m.kind = "null" \/ (Matching(w, m) # {} /\ connectedClient = NoClient)
       THEN Halt
       ELSE IF Matching(w, m) = {}
       THEN UNCHANGED vars
       ELSE LET hit == Matching(w, m)
                resumed == {l.run : l \in {x \in hit : x.live}}
                bad == {r \in resumed : ~LegalPort(curPort[r])} IN
            \/ /\ listeners' =
                     [listeners EXCEPT ![w] =
                         IF connectedClient = w THEN @ \ hit
                         ELSE (@ \ hit) \cup {[l EXCEPT !.live = FALSE] : l \in hit}]
               /\ pc' = [r \in Runs |->
                            IF r \in bad THEN "failed"
                            ELSE IF r \in resumed THEN "probing" ELSE pc[r]]
               /\ curPort' = [r \in Runs |->
                                 IF r \in bad THEN NoPort ELSE curPort[r]]
               /\ response' = NoResponse
               /\ outbox' = <<>>
               /\ UNCHANGED <<connectedClient, clientPublicIp, isScanning,
                              scanQueue, scanResults, readyState,
                              crashed, sock, nextConn, nextRun, range, runState,
                              aborted, lastDequeued, completes>>
            \/ /\ bad # {}
               /\ Halt

(* ---------------------------- the probe settles ------------------------- *)

\* Lines 125-152 for chain r, resumed by the first event `ev` of its probe
\* socket.  scanResults[-1] is undefined, so a missing record throws before
\* anything is sent.
ProbeSettled(r, ev) ==
    /\ ~crashed
    /\ pc[r] = "probing"
    /\ LET port == curPort[r]
           result == attemptConnectToClient(port, ev)
           idx == findIndex(scanResults, port) IN
       IF idx = 0
       THEN \/ Halt
            \/ /\ pc' = [pc EXCEPT ![r] = "failed"]
               /\ curPort' = [curPort EXCEPT ![r] = NoPort]
               /\ response' = NoResponse
               /\ outbox' = <<>>
               /\ UNCHANGED <<connectedClient, clientPublicIp, isScanning,
                              scanQueue, scanResults, readyState, listeners,
                              crashed, sock, nextConn, nextRun, range,
                              runState, aborted, lastDequeued, completes>>
       ELSE LET out == sendToClient(
                         sendToClient(<<>>, Msg("stopListener", r, port, "none")),
                         Msg("portScanned", r, port,
                             [success |-> result.success,
                              error |-> IF result.success THEN "null"
                                        ELSE result.errorMessage,
                              remaining |-> Len(scanQueue)])) IN
            /\ scanResults' = [scanResults EXCEPT ![idx] =
                  IF result.success
                  THEN [@ EXCEPT !.status = "open"]
                  ELSE [@ EXCEPT !.status = "closed", !.error = result.errorMessage]]
            /\ outbox' = out
            /\ lastDequeued' = Mark(lastDequeued, out)
            /\ pc' = [pc EXCEPT ![r] = "timer"]
            /\ response' = NoResponse
            /\ UNCHANGED <<connectedClient, clientPublicIp, isScanning, scanQueue,
                           readyState, listeners, curPort, crashed, sock, nextConn,
                           nextRun, range, runState, aborted, completes>>

(* ---------------------------- specification ----------------------------- *)

Next ==
    \/ \E req \in Requests : ScanRequest(req[1], req[2])
    \/ \E req \in Handshakes : Connect(req)
    \/ \E w \in Conns : BeginClose(w)
    \/ \E w \in Conns : OnClose(w)
    \/ \E w \in Conns, m \in AllPayloads : Message(w, m)
    \/ \E r \in Runs, ev \in ProbeEvents : ProbeSettled(r, ev)
    \/ \E r \in Runs : Timer(r)

Spec == Init /\ [][Next]_vars

(* ------------------------------ the probe ------------------------------ *)

\* The ports a scan queue can hold: the integers of a range and the fraction
\* that validation lets through.
ProbePorts == {JsNum(p, FALSE) : p \in 1..MaxPort} \cup {JsNum(1, TRUE)}

ProbeFrame ==
    UNCHANGED <<connectedClient, clientPublicIp, isScanning, scanQueue,
                scanResults, readyState, listeners, pc, curPort, crashed,
                response, outbox, nextConn, nextRun, range, runState, aborted,
                lastDequeued, completes>>

\* Chain r calls attemptConnectToClient(port); its previous call is over.
StartProbe(r, port) ==
    /\ sock[r] = NoSocket \/ sock[r].result # Pending
    /\ sock' = [sock EXCEPT ![r] = NewSocket(port)]
    /\ ProbeFrame

\* An event of the socket of chain r that has not fired yet.  Node delivers
\* no connect or error after destroy(); delivering them here covers every
\* ordering.  A socket whose connect() threw has its timeout timer only.
SocketEvent(r, ev) ==
    /\ sock[r] # NoSocket
    /\ EventKind(ev) \notin sock[r].fired
    /\ LegalPort(sock[r].port) \/ ev = "timeout"
    /\ sock' = [sock EXCEPT ![r] = Fire(sock[r], ev)]
    /\ ProbeFrame

NextProbe ==
    \/ \E r \in Runs, port \in ProbePorts : StartProbe(r, port)
    \/ \E r \in Runs, ev \in SocketEvents : SocketEvent(r, ev)

SpecProbe == Init /\ [][NextProbe]_vars

(* ------------------- a channel that stays open ----------------------- *)

\* The agent answers a startListener: a listening or error message for a
\* port some chain waits for on ws w.
AgentReply(w, m) ==
    /\ m.kind = "object"
    /\ m.event \in {"listening", "error"}
    /\ Matching(w, m) # {}
    /\ Message(w, m)

\* The steps of the server while no ws closes and the agent sends replies
\* only.
NextOpen ==
    \/ \E req \in Requests : ScanRequest(req[1], req[2])
    \/ \E req \in Handshakes : Connect(req)
    \/ \E w \in Conns, m \in AllPayloads : AgentReply(w, m)
    \/ \E r \in Runs, ev \in ProbeEvents : ProbeSettled(r, ev)
    \/ \E r \in Runs : Timer(r)

\* The agent answers every startListener, the socket timeout bounds every
\* probe, and the event loop runs every timer that is due.
SpecOpen ==
    /\ Init
    /\ [][NextOpen]_vars
    /\ \A w \in Conns, p \in ProbePorts :
          WF_vars(\E m \in AllPayloads : m.port = p /\ AgentReply(w, m))
    /\ WF_vars(\E r \in Runs, ev \in ProbeEvents : ProbeSettled(r, ev))
    /\ WF_vars(\E r \in Runs : Timer(r))

(* ---------------------------- properties -------------------------------- *)

Rejections == {"NoAgent", "AlreadyScanning", "InvalidRange"}
IntegerRange == IsInteger(range[1]) /\ IsInteger(range[2])
\* s, s+1, ..., e
RangeSeq(s, e) == [i \in 1..(e.n - s.n + 1) |-> JsNum(s.n + i - 1, FALSE)]
Terminal(rec) == rec.status \in {"open", "closed"}
\* A chain that some event can still resume.
Resumable(r) ==
    \/ pc[r] \in {"probing", "timer"}
    \/ /\ pc[r] = "awaitAck"
       /\ \E w \in Conns : \E l \in listeners[w] : l.run = r /\ l.live

\* C1: the total of the success response of an accepted scan over the
\* integers startPort..endPort is endPort - startPort + 1.
C1_TotalIsRangeSize ==
    (response.kind = "accepted" /\ IntegerRange)
        => response.total = range[2].n - range[1].n + 1

\* C2: when a scan over the integers s..e that no channel close aborted
\* reaches completion, the ports of the results carried by scanComplete are
\* s, s+1, ..., e in this order, each once.
C2_ResultsAreTheRange ==
    \A i \in Sent(outbox, "scanComplete") :
        (runState = "completed" /\ IntegerRange)
            => Ports(outbox[i].body) = RangeSeq(range[1], range[2])

C2_Witness ==
    \E i \in Sent(outbox, "scanComplete") :
        /\ runState = "completed"
        /\ range = <<JsNum(1, FALSE), JsNum(MaxPort, FALSE)>>
        /\ Len(outbox[i].body) = MaxPort
        /\ \A k \in DOMAIN outbox[i].body : Terminal(outbox[i].body[k])

\* C3 as stated: a scan request issued while the previously accepted scan
\* has not yet emitted scanComplete is rejected with AlreadyScanning.
C3_RejectedUntilScanComplete ==
    [][(response'.kind # "none" /\ range # NoRange /\ completes = 0)
          => response'.kind = "AlreadyScanning"]_vars

\* C3 as amended: a scan request issued after a scan was accepted, before any
\* completion step has run and before any agent channel has closed since
\* then, is rejected with AlreadyScanning.
C3_RejectedWhileActive ==
    [][(response'.kind # "none" /\ runState = "open")
          => response'.kind = "AlreadyScanning"]_vars

C3_Witness ==
    /\ response.kind = "AlreadyScanning"
    /\ runState = "open"
    /\ \E r \in Runs : pc[r] \in InFlight

\* C4: when every channel that connected has closed, or none ever connected,
\* a scan request is rejected with NoAgent.
C4_NoAgentWithoutChannel ==
    [][(response'.kind # "none"
            /\ \A w \in Conns : readyState[w] \in {"NONE", "CLOSED"})
          => response'.kind = "NoAgent"]_vars

C4_Witness ==
    /\ response.kind = "NoAgent"
    /\ \E w \in Conns : readyState[w] = "CLOSED"
    /\ \A w \in Conns : readyState[w] \in {"NONE", "CLOSED"}

\* What C5 says the answer to the request <<s, e>> is.
ClaimedOutcome(s, e) ==
    IF connectedClient = NoClient THEN "NoAgent"
    ELSE IF isScanning THEN "AlreadyScanning"
    ELSE IF \/ ~IsInteger(s)
            \/ ~IsInteger(e)
            \/ Less(s, JsNum(1, FALSE))
            \/ Less(e, s)
         THEN "InvalidRange"
         ELSE "accepted"

\* C5: the checks are applied in the order NoAgent, AlreadyScanning,
\* InvalidRange (startPort or endPort not an integer, startPort < 1 or
\* endPort < startPort), the first that fails decides, and the request is
\* accepted only if all three pass.
C5_FirstFailingCheckDecides ==
    [][\A req \in Requests :
          ScanRequest(req[1], req[2])
              => response'.kind = ClaimedOutcome(req[1], req[2])]_vars

\* C6: a rejected scan request sends nothing on the agent channel and leaves
\* the busy flag, the queue, the results, the agent session and every chain
\* as they were.
C6_RejectionChangesNothing ==
    [][response'.kind \in Rejections
          => /\ outbox' = <<>>
             /\ UNCHANGED <<isScanning, scanQueue, scanResults, connectedClient,
                            clientPublicIp, pc, listeners>>]_vars

C6_Witness ==
    /\ response.kind \in Rejections
    /\ connectedClient # NoClient
    /\ isScanning
    /\ scanQueue # <<>>
    /\ scanResults # <<>>

\* C7: when a channel closes while a scan is active the busy flag is false at
\* once, and the chains that were in flight send no message any more.
C7_AbortedRunIsSilent ==
    [][/\ (\E w \in Conns : readyState[w] = "CLOSING" /\ readyState'[w] = "CLOSED")
            => ~isScanning'
       /\ \A i \in DOMAIN outbox' :
             outbox'[i].to # NoClient => outbox'[i].by \notin aborted]_vars

\* C8: within a scan, startListener for the next port is handed to the channel
\* only after stopListener and portScanned were handed to it for the port
\* dequeued before.
C8_NoPipelining ==
    [][\A i \in Handed(outbox', "startListener") :
          \/ response'.kind = "accepted"
          \/ lastDequeued.stop /\ lastDequeued.progress]_vars

\* C9: at most one processNextPort chain can still run.
C9_OneIterationInFlight ==
    Cardinality({r \in Runs : Resumable(r)}) <= 1

\* C10: scanComplete is sent at most once per accepted scan, with the queue
\* empty, the busy flag false, and a terminal record for every port of the
\* requested range.
C10_CompleteOnceAndTerminal ==
    /\ completes <= 1
    /\ \A i \in Sent(outbox, "scanComplete") :
          /\ scanQueue = <<>>
          /\ ~isScanning
          /\ \A k \in DOMAIN outbox[i].body : Terminal(outbox[i].body[k])
          /\ IntegerRange
                => Ports(outbox[i].body) = RangeSeq(range[1], range[2])

\* C12: a connection attached while a ws is stored replaces it and aborts the
\* scan in flight: the busy flag is cleared and the queue discarded.
C12_AttachAbortsScan ==
    [][(nextConn' = nextConn + 1 /\ ~crashed' /\ connectedClient # NoClient)
          => /\ connectedClient' = nextConn
             /\ ~isScanning'
             /\ scanQueue' = <<>>]_vars

\* C13: the close that aborts a scan leaves every record as it is, and no
\* record changes afterwards while the scan stays aborted.
C13_AbortKeepsRecords ==
    [][runState' = "aborted" => scanResults' = scanResults]_vars

C16_OutcomeFoldedNeverFatal ==
    [][\A r \in Runs, ev \in ProbeEvents :
          ProbeSettled(r, ev)
              => /\ ~crashed'
                 /\ pc'[r] = "timer"
                 /\ \E i \in DOMAIN scanResults' :
                       /\ scanResults'[i].port = curPort[r]
                       /\ IF ev = "connect"
                          THEN scanResults'[i].status = "open"
                          ELSE /\ scanResults'[i].status = "closed"
                               /\ scanResults'[i].error = ev
                 /\ \E i \in Handed(outbox', "stopListener") :
                       outbox'[i].port = curPort[r]
                 /\ \E i \in Handed(outbox', "portScanned") :
                       outbox'[i].port = curPort[r]]_vars

\* A step in which the agent acknowledges port p on ws w.
AckStep(w, p) ==
    \E m \in AllPayloads :
        /\ m.kind = "object"
        /\ m.event \in {"listening", "error"}
        /\ m.port = p
        /\ Message(w, m)

\* A step that no agent payload other than the JSON text null causes and in
\* which no ws leaves OPEN.
QuietStep ==
    /\ ~crashed'
    /\ \A w \in Conns : readyState[w] # "NONE" => readyState'[w] = readyState[w]

\* Chain r awaits the ack on a ws that is OPEN and no close has aborted it.
Waiting(r) ==
    /\ pc[r] = "awaitAck"
    /\ r \notin aborted
    /\ \E w \in Conns :
          /\ readyState[w] = "OPEN"
          /\ \E l \in listeners[w] : l.run = r /\ l.live

\* C17: a chain leaves its wait for the ack only by a listening or error
\* message for its port on the ws it listens on, and while no ws closes and
\* no such message arrives it stays in the wait with the busy flag true.
C17_ProbeOnlyAfterAck ==
    [][\A r \in Runs :
          (Waiting(r) /\ isScanning /\ QuietStep)
              => \/ /\ pc'[r] = "awaitAck"
                    /\ isScanning'
                 \/ /\ pc'[r] \in {"probing", "failed"}
                    /\ \E w \in Conns :
                          /\ \E l \in listeners[w] : l.run = r /\ l.live
                          /\ AckStep(w, curPort[r])]_vars

\* C18: while some ws is OPEN the stored ws and the address are not null.
C18_SessionWhileChannelOpen ==
    (\E w \in Conns : readyState[w] = "OPEN")
        => connectedClient # NoClient /\ clientPublicIp # "null"

\* C19: a chain whose probe is outstanding has a record for its port.
C19_RecordPresentAtProbeEnd ==
    \A r \in Runs :
        pc[r] = "probing" => findIndex(scanResults, curPort[r]) # 0

\* C20: the busy flag implies a stored ws, and a non-empty queue implies the
\* busy flag.
C20_BusyImpliesSession ==
    /\ isScanning => connectedClient # NoClient
    /\ scanQueue # <<>> => isScanning

C20_Witness ==
    /\ isScanning
    /\ scanQueue # <<>>
    /\ \E w \in Conns : readyState[w] = "CLOSED"
    /\ \E r \in Runs : pc[r] \in InFlight /\ r \in aborted

\* C14: every call of the probe has exactly one outcome, the one of the first
\* event of its socket (connect: success; error: failure with the error text;
\* timeout: failure with 'timeout'); the socket is destroyed from that event
\* on, and a later event changes neither.
C14_FirstEventDecides ==
    \A r \in Runs :
        sock[r] # NoSocket =>
            IF sock[r].first = "none"
            THEN sock[r].result = Pending /\ ~sock[r].destroyed
            ELSE /\ sock[r].destroyed
                 /\ sock[r].result =
                        [port |-> sock[r].port,
                         success |-> sock[r].first = "connect",
                         errorMessage |-> IF sock[r].first = "connect"
                                          THEN "undefined" ELSE sock[r].first]

\* The same for the calls whose socket.connect() did not throw.
ProbeOfLegalPort ==
    \A r \in Runs :
        (sock[r] # NoSocket /\ LegalPort(sock[r].port)) =>
            IF sock[r].first = "none"
            THEN sock[r].result = Pending /\ ~sock[r].destroyed
            ELSE /\ sock[r].destroyed
                 /\ sock[r].result =
                        [port |-> sock[r].port,
                         success |-> sock[r].first = "connect",
                         errorMessage |-> IF sock[r].first = "connect"
                                          THEN "undefined" ELSE sock[r].first]

\* C11: while the channel stays open and the agent answers every
\* startListener, every accepted scan is eventually completed: scanComplete
\* has been sent and the busy flag is false.
C11_AcceptedScanCompletes ==
    (runState = "open") ~> (runState = "completed" /\ ~isScanning /\ completes > 0)

\* The same for the scans whose range holds integers only.
IntegerScanCompletes ==
    (runState = "open" /\ IntegerRange)
        ~> (runState = "completed" /\ ~isScanning /\ completes > 0)
====
